---------------------------- MODULE Spec2Model ----------------------------
(***************************************************************************)
(* PayTrack payroll tracker: the wage calculation of WagesModule, the      *)
(* mark-as-paid transition with its payment row, the attendance upsert of  *)
(* AttendanceModule and the payment report of ReportModule, over the four  *)
(* tables of the schema.                                                   *)
(*                                                                         *)
(* Currency amounts and hours are exact numbers scaled to integers (one    *)
(* unit = one cent, one overtime unit = one hour step).                    *)
(***************************************************************************)
EXTENDS Integers, Sequences, FiniteSets, TLC

(***************************************************************************)
(* Bounds of the model.                                                    *)
(***************************************************************************)
\* dates are the integers 1..MaxDate (ISO date strings compare like them)
MaxDate == 2
\* rows of wage_calculations the store may hold
MaxCalcs == 1
\* rows of payments the store may hold
MaxPayments == 2
\* length of the attendance list given to the breakdown loop
MaxRecords == 5
\* dates the attendance form is submitted for while submissions interleave
MaxSubmitDate == 1
\* fetches of the report screen that may be in flight together
MaxInFlight == 3
\* calculations stored while attendance is still being marked
MaxCalcRuns == 2

(***************************************************************************)
(* Identities and enumerations of the schema.                              *)
(***************************************************************************)
EmpIds == {"e1", "e2"}
\* an employee still offered by a session's list after its row was deleted
DeletedEmployee == "e3"
Sessions == {"s1", "s2"}
Dates == 1..MaxDate
\* the empty string of an unset <select> or <input type="date">
NoSelection == ""
NoDate == 0
\* null: a missing row, an unset state
NULL == [null |-> TRUE]
\* the 'all' option of the report's employee filter
AllEmployees == "all"

\* alert(message) in a session's window
Alert(s, message) == [session |-> s, message |-> message]

Statuses == {"present", "absent", "half-day"}
\* useState<'daily' | 'weekly' | 'monthly'>('weekly'): the period type the
\* calculations are requested with (it is stored, nothing is computed from it)
DefaultPeriodType == "weekly"

\* employees.daily_wage / overtime_rate / half_day_rate
Rates(d, o, h) == [daily_wage |-> d, overtime_rate |-> o, half_day_rate |-> h]
RateSet == {Rates(100, 20, 50), Rates(0, 0, 0)}

\* what the overtime and advance inputs of the attendance form are drawn from
OvertimeAdvance == {<<0, 0>>, <<2, 0>>, <<0, 30>>}

VARIABLES
  \* the persistence store: the four tables of the schema
  employees,          \* [EmpIds -> Rates], the registered employees
  attendance,         \* set of attendance rows
  wage_calculations,  \* set of wage_calculations rows
  payments,           \* set of payments rows
  nextId,             \* gen_random_uuid() of wage_calculations: the next fresh id
  \* WagesModule, per browser session
  calculations,       \* useState<WageCalculation[]>: the list last fetched
  markPaid,           \* the markAsPaid call in flight
  \* AttendanceModule, per browser session
  submit,             \* the handleSubmit call in flight
  alert,              \* the alert() the last step showed, null when none
  \* the locals of one calculateWages run
  employee,           \* const { data: employee }
  attendanceRecords,  \* const { data: attendanceRecords }
  breakdown,          \* useState<CalculationBreakdown | null>
  calculating,        \* useState(false): the flag that disables the button
  calculateRun,       \* the calculateWages call of the session and its await
  \* ReportModule, one mounted report screen
  reportEmployees,    \* useState<Employee[]>: the employees last fetched
  reportPayments,     \* useState<PaymentReport[]>: the payment list shown
  employeeSummaries,  \* useState<EmployeeSummary[]>: the summaries shown
  selectedEmployee,   \* useState<string>('all')
  startDate,          \* useState<string>('')
  endDate,            \* useState<string>('')
  fetching            \* the fetches of the report screen that are in flight

storeVars == <<employees, attendance, wage_calculations, payments, nextId>>
wagesVars == <<calculations, markPaid>>
attendanceVars == <<submit>>
calcVars == <<employee, attendanceRecords, breakdown, calculating, calculateRun>>
reportVars == <<reportEmployees, reportPayments, employeeSummaries,
                selectedEmployee, startDate, endDate, fetching>>
vars == <<employees, attendance, wage_calculations, payments, nextId,
          calculations, markPaid, submit, alert,
          employee, attendanceRecords, breakdown, calculating, calculateRun,
          reportEmployees, reportPayments, employeeSummaries,
          selectedEmployee, startDate, endDate, fetching>>

(***************************************************************************)
(* The breakdown of calculateWages (WagesModule.tsx:140-171).              *)
(***************************************************************************)
\* let presentDays = 0; ... let totalAdvances = 0;
Counters0 ==
  [presentDays |-> 0, halfDays |-> 0, absentDays |-> 0,
   totalOvertimeHours |-> 0, totalAdvances |-> 0]

\* the loop body that assigns the advance instead of adding it
CountRecordLastAdvance(acc, record) ==
  [presentDays |-> acc.presentDays + (IF record.status = "present" THEN 1 ELSE 0),
   halfDays |-> acc.halfDays + (IF record.status = "half-day" THEN 1 ELSE 0),
   absentDays |-> acc.absentDays + (IF record.status = "absent" THEN 1 ELSE 0),
   totalOvertimeHours |-> acc.totalOvertimeHours + record.overtime_hours,
   totalAdvances |-> record.advance_taken]

\* the body of attendanceRecords.forEach
CountRecord(acc, record) ==
  [presentDays |-> acc.presentDays + (IF record.status = "present" THEN 1 ELSE 0),
   halfDays |-> acc.halfDays
                  + (IF record.status # "present" /\ record.status = "half-day"
                       THEN 1 ELSE 0),
   absentDays |-> acc.absentDays
                  + (IF record.status # "present" /\ record.status # "half-day"
                        /\ record.status = "absent"
                       THEN 1 ELSE 0),
   totalOvertimeHours |-> acc.totalOvertimeHours + record.overtime_hours,
   totalAdvances |-> acc.totalAdvances + record.advance_taken]

RECURSIVE ForEachRecord(_, _)
ForEachRecord(acc, records) ==
  IF records = << >> THEN acc
  ELSE ForEachRecord(CountRecord(acc, Head(records)), Tail(records))

\* netAmount = grossAmount - totalAdvances, variant that floors the result at 0
NetAmountClamped(grossAmount, totalAdvances) ==
  IF grossAmount - totalAdvances < 0 THEN 0 ELSE grossAmount - totalAdvances

NetAmount(grossAmount, totalAdvances) == grossAmount - totalAdvances

\* overtime counted on present days only
OvertimeAmountPresentOnly(counters, emp, records) ==
  LET RECURSIVE Sum(_)
      Sum(rs) == IF rs = << >> THEN 0
                 ELSE (IF Head(rs).status = "present" THEN Head(rs).overtime_hours ELSE 0)
                      + Sum(Tail(rs))
  IN Sum(records) * emp.overtime_rate

OvertimeAmount(counters, emp, records) ==
  counters.totalOvertimeHours * emp.overtime_rate

calculationBreakdown(emp, records) ==
  LET c == ForEachRecord(Counters0, records)
      baseWage == c.presentDays * emp.daily_wage
      halfDayAmount == c.halfDays * emp.half_day_rate
      overtimeAmount == OvertimeAmount(c, emp, records)
      grossAmount == baseWage + halfDayAmount + overtimeAmount
      netAmount == NetAmount(grossAmount, c.totalAdvances)
  IN [presentDays |-> c.presentDays,
      halfDays |-> c.halfDays,
      absentDays |-> c.absentDays,
      totalOvertimeHours |-> c.totalOvertimeHours,
      baseWage |-> baseWage,
      overtimeAmount |-> overtimeAmount,
      halfDayAmount |-> halfDayAmount,
      totalAdvances |-> c.totalAdvances,
      grossAmount |-> grossAmount,
      netAmount |-> netAmount]

(***************************************************************************)
(* The breakdown as a function of its inputs: every employee rate set and  *)
(* every attendance list up to MaxRecords.                                 *)
(***************************************************************************)
\* the columns of an attendance row the loop reads
AttendanceInputs ==
  {[status |-> st, overtime_hours |-> oa[1], advance_taken |-> oa[2]] :
     st \in Statuses, oa \in OvertimeAdvance}

\* the store and the sessions before anything was done
InitStore ==
  /\ attendance = {}
  /\ wage_calculations = {}
  /\ payments = {}
  /\ nextId = 1

\* a calculateWages call: the await it is at, the inputs its closure holds,
\* the store round trips it has made and the path it left by
Run(await, sel, start, end, trips, exit) ==
  [await |-> await, selectedEmployee |-> sel, startDate |-> start, endDate |-> end,
   trips |-> trips, exit |-> exit]

\* before the first click on 'Calculate Wages'
NoRun == Run("idle", NoSelection, NoDate, NoDate, 0, "none")

InitSessions ==
  /\ calculating = FALSE
  /\ calculateRun = NoRun
  /\ calculations = [s \in Sessions |-> {}]
  /\ markPaid = [s \in Sessions |-> NULL]
  /\ submit = [s \in Sessions |-> NULL]
  /\ alert = NULL
  /\ reportEmployees = << >>
  /\ reportPayments = << >>
  /\ employeeSummaries = << >>
  /\ selectedEmployee = AllEmployees
  /\ startDate = NoDate
  /\ endDate = NoDate
  /\ fetching = {}

InitBreakdown ==
  /\ employees = [e \in EmpIds |-> Rates(100, 20, 50)]
  /\ InitStore
  /\ InitSessions
  /\ employee \in RateSet
  /\ attendanceRecords \in UNION {[1..n -> AttendanceInputs] : n \in 0..MaxRecords}
  /\ breakdown = NULL

\* lines 140-173: the loop, the amounts, setBreakdown
CalculateBreakdown ==
  /\ breakdown = NULL
  /\ breakdown' = calculationBreakdown(employee, attendanceRecords)
  /\ UNCHANGED <<storeVars, wagesVars, attendanceVars, alert, employee, attendanceRecords,
                 calculating, calculateRun, reportVars>>

NextBreakdown == CalculateBreakdown

SpecBreakdown == InitBreakdown /\ [][NextBreakdown]_vars

(***************************************************************************)
(* The attendance table and the upsert of AttendanceModule.handleSubmit.   *)
(***************************************************************************)
\* what the attendance form (status, overtime, advance, notes) is filled with
AttendanceForms ==
  {[status |-> "present", overtime_hours |-> 2, advance_taken |-> 0, notes |-> ""],
   [status |-> "absent", overtime_hours |-> 0, advance_taken |-> 30, notes |-> "advance"]}

\* a record written to the store with a status that is none of the three
UnknownStatusForm ==
  [status |-> "leave", overtime_hours |-> 2, advance_taken |-> 30, notes |-> ""]

\* the rows of the (employee_id, date) key
AttendanceOf(rows, e, d) == {r \in rows : r.employee_id = e /\ r.date = d}

\* UNIQUE(employee_id, date), switched off
UniqueEmployeeDateOff(rows, r) == TRUE

\* UNIQUE(employee_id, date): may r be a row next to rows
UniqueEmployeeDate(rows, r) == AttendanceOf(rows, r.employee_id, r.date) = {}

\* the status column without its CHECK
CheckStatusOff(r) == TRUE

\* status text NOT NULL CHECK (status IN ('present', 'absent', 'half-day'))
CheckStatus(r) == r.status \in Statuses

\* .select('id').eq('employee_id', e).eq('date', d).maybeSingle(): { id } of the
\* row, null when there is none (and when there are several: data is null then)
maybeSingle(rows, e, d) ==
  LET found == AttendanceOf(rows, e, d)
  IN IF Cardinality(found) = 1 THEN [id |-> (CHOOSE r \in found : TRUE).id] ELSE NULL

\* const attendanceRecord: AttendanceInsert = {...}
attendanceRecord(e, d, form) ==
  [employee_id |-> e, date |-> d, status |-> form.status,
   overtime_hours |-> form.overtime_hours,
   advance_taken |-> form.advance_taken,
   notes |-> form.notes]

\* id uuid DEFAULT gen_random_uuid(): a fresh id. Attendance rows are never
\* deleted, so the key and the number of rows it already has name a new row
AttendanceId(rows, rec) ==
  <<rec.employee_id, rec.date, Cardinality(AttendanceOf(rows, rec.employee_id, rec.date))>>

\* a row as inserted: created_at and updated_at both DEFAULT now().
\* updated: updated_at is later than created_at
AttendanceRow(id, rec) ==
  [id |-> id, employee_id |-> rec.employee_id, date |-> rec.date,
   status |-> rec.status, overtime_hours |-> rec.overtime_hours,
   advance_taken |-> rec.advance_taken, notes |-> rec.notes,
   updated |-> FALSE]

\* the update that keeps the row's old status and amounts
UpdateAttendanceKeepOld(rows, id, rec) ==
  {IF r.id = id THEN [r EXCEPT !.updated = TRUE] ELSE r : r \in rows}

\* .update({...attendanceRecord}).eq('id', id): the table afterwards
UpdateAttendance(rows, id, rec) ==
  {IF r.id = id THEN [AttendanceRow(id, rec) EXCEPT !.updated = TRUE] ELSE r : r \in rows}

\* may the update be written: the other rows leave the key free
UpdateAllowed(rows, id, rec) ==
  /\ CheckStatus(rec)
  /\ UniqueEmployeeDate({r \in rows : r.id # id}, rec)

\* may the insert be written: the constraints of the table
InsertAllowed(rows, rec) ==
  /\ CheckStatus(rec)
  /\ rec.employee_id \in DOMAIN employees
  /\ UniqueEmployeeDate(rows, rec)

AlertSelect == "Please select an employee and date"
AlertMarked == "Attendance marked successfully"
AlertMarkError == "Error marking attendance"

\* handleSubmit up to its first await: the guard, the record, the lookup
SubmitLookup(s, e, d, form) ==
  /\ submit[s] = NULL
  /\ IF e = NoSelection \/ d = NoDate
       THEN /\ alert' = Alert(s, AlertSelect)
            /\ UNCHANGED submit
       ELSE /\ submit' = [submit EXCEPT ![s] =
                           [attendanceRecord |-> attendanceRecord(e, d, form),
                            existing |-> maybeSingle(attendance, e, d)]]
            /\ alert' = NULL
  /\ UNCHANGED <<storeVars, wagesVars, calcVars, reportVars>>

\* handleSubmit from the lookup's answer on: update or insert, then the alert
SubmitWrite(s) ==
  /\ submit[s] # NULL
  /\ LET rec == submit[s].attendanceRecord
         existing == submit[s].existing
         written == IF existing # NULL
                      THEN UpdateAllowed(attendance, existing.id, rec)
                      ELSE InsertAllowed(attendance, rec)
     IN /\ attendance' =
             IF ~written THEN attendance
             ELSE IF existing # NULL
                    THEN UpdateAttendance(attendance, existing.id, rec)
                    ELSE attendance \cup {AttendanceRow(AttendanceId(attendance, rec), rec)}
        /\ alert' = Alert(s, IF written THEN AlertMarked ELSE AlertMarkError)
  /\ submit' = [submit EXCEPT ![s] = NULL]
  /\ UNCHANGED <<employees, wage_calculations, payments, nextId, wagesVars, calcVars,
                 reportVars>>

InitAttendance ==
  /\ employees \in [EmpIds -> {Rates(100, 20, 50)}]
  /\ InitStore
  /\ InitSessions
  /\ employee = NULL
  /\ attendanceRecords = << >>
  /\ breakdown = NULL

NextAttendance ==
  \/ \E s \in Sessions, e \in EmpIds \cup {NoSelection},
        d \in (1..MaxSubmitDate) \cup {NoDate},
        form \in AttendanceForms : SubmitLookup(s, e, d, form)
  \/ \E s \in Sessions : SubmitWrite(s)

SpecAttendance == InitAttendance /\ [][NextAttendance]_vars

(***************************************************************************)
(* WagesModule: calculateWages, fetchCalculations, markAsPaid.             *)
(***************************************************************************)
\* .limit(20) of fetchCalculations
FetchLimit == 20

AlertSelectRange == "Please select an employee and date range"
AlertNotFound == "Employee not found"
AlertCalculated == "Wage calculation completed successfully!"
AlertCalcError == "Error calculating wages"
AlertPaid == "Marked as paid successfully!"
AlertPaidError == "Error marking as paid"

\* the range query without the first day of the range
AttendanceInRangeAfterStart(rows, e, start, end) ==
  {r \in rows : r.employee_id = e /\ r.date > start /\ r.date <= end}

\* the range query without the last day of the range
AttendanceInRangeBeforeEnd(rows, e, start, end) ==
  {r \in rows : r.employee_id = e /\ r.date >= start /\ r.date < end}

\* the range query without the employee filter
AttendanceInRangeAnyEmployee(rows, e, start, end) ==
  {r \in rows : r.date >= start /\ r.date <= end}

\* .from('attendance').eq('employee_id', e).gte('date', start).lte('date', end)
AttendanceInRange(rows, e, start, end) ==
  {r \in rows : r.employee_id = e /\ r.date >= start /\ r.date <= end}

\* the orders in which the store may return a set of rows
Orderings(rows) ==
  {q \in [1..Cardinality(rows) -> rows] : \A i, j \in DOMAIN q : i # j => q[i] # q[j]}

\* the row inserted with is_paid: true
wageCalculationPaid(id, e, start, end, ptype, b) ==
  [id |-> id, employee_id |-> e, period_start |-> start, period_end |-> end,
   period_type |-> ptype,
   present_days |-> b.presentDays, half_days |-> b.halfDays,
   absent_days |-> b.absentDays, total_overtime_hours |-> b.totalOvertimeHours,
   base_wage |-> b.baseWage, overtime_amount |-> b.overtimeAmount,
   half_day_amount |-> b.halfDayAmount, total_advances |-> b.totalAdvances,
   gross_amount |-> b.grossAmount, net_amount |-> b.netAmount,
   is_paid |-> TRUE]

\* const wageCalculation: WageCalculationInsert = {...}, with the id the store gives
wageCalculation(id, e, start, end, ptype, b) ==
  [id |-> id, employee_id |-> e, period_start |-> start, period_end |-> end,
   period_type |-> ptype,
   present_days |-> b.presentDays, half_days |-> b.halfDays,
   absent_days |-> b.absentDays, total_overtime_hours |-> b.totalOvertimeHours,
   base_wage |-> b.baseWage, overtime_amount |-> b.overtimeAmount,
   half_day_amount |-> b.halfDayAmount, total_advances |-> b.totalAdvances,
   gross_amount |-> b.grossAmount, net_amount |-> b.netAmount,
   is_paid |-> FALSE]

\* the rates an employee is registered with
RegisteredRates(e) == IF e = "e1" THEN Rates(100, 20, 50) ELSE Rates(80, 10, 40)

\* the employee read answered from the rows as first registered
singleRegistered(table, id) ==
  IF id \in DOMAIN table THEN RegisteredRates(id) ELSE NULL

\* .from('employees').select('*').eq('id', id).single(): the row, null without one
single(table, id) == IF id \in DOMAIN table THEN table[id] ELSE NULL

\* the error of a store call that is never looked at
ThrowsNever(error) == FALSE

\* if (attendanceError) throw attendanceError; if (insertError) throw insertError
Throws(error) == error

\* the insert that replaces the stored calculation of the employee and period
UpsertCalculation(rows, row) ==
  {x \in rows : ~(/\ x.employee_id = row.employee_id
                  /\ x.period_start = row.period_start
                  /\ x.period_end = row.period_end)} \cup {row}

\* supabase.from('wage_calculations').insert([wageCalculation]): the table afterwards
InsertCalculation(rows, row) == rows \cup {row}

\* calculateWages: one run, its three store round trips taken together.
\* fault: the store call that fails ("none", "attendance", "insert")
calculateWages(s, sel, start, end, ptype, fault) ==
  /\ IF sel = NoSelection \/ start = NoDate \/ end = NoDate
       THEN /\ alert' = Alert(s, AlertSelectRange)
            /\ UNCHANGED <<wage_calculations, nextId>>
       ELSE IF single(employees, sel) = NULL
       THEN /\ alert' = Alert(s, AlertNotFound)
            /\ UNCHANGED <<wage_calculations, nextId>>
       ELSE IF Throws(fault = "attendance")
       THEN /\ alert' = Alert(s, AlertCalcError)
            /\ UNCHANGED <<wage_calculations, nextId>>
       ELSE \E records \in Orderings(AttendanceInRange(attendance, sel, start, end)) :
              LET insertError == fault = "insert"
                  row == wageCalculation(nextId, sel, start, end, ptype,
                                         calculationBreakdown(single(employees, sel), records))
              IN /\ wage_calculations' =
                      IF insertError THEN wage_calculations
                      ELSE InsertCalculation(wage_calculations, row)
                 /\ nextId' = IF insertError THEN nextId ELSE nextId + 1
                 /\ alert' = Alert(s, IF Throws(insertError) THEN AlertCalcError
                                                               ELSE AlertCalculated)
  /\ UNCHANGED <<employees, attendance, payments, wagesVars, attendanceVars, calcVars,
                 reportVars>>

\* .order('created_at', { ascending: false }).limit(20), with
\* .eq('employee_id', selectedEmployee) when an employee is selected
FetchedCalculations(stored, sel) ==
  LET rows == IF sel = NoSelection THEN stored
              ELSE {c \in stored : c.employee_id = sel}
  IN {c \in rows : Cardinality({x \in rows : x.id > c.id}) < FetchLimit}

\* fetchCalculations: the 20 newest rows, of the selected employee when one is
fetchCalculations(s, sel) ==
  /\ calculations' = [calculations EXCEPT ![s] =
                        FetchedCalculations(wage_calculations, sel)]
  /\ calculations'[s] # calculations[s]
  /\ alert' = NULL
  /\ UNCHANGED <<storeVars, markPaid, attendanceVars, calcVars, reportVars>>

\* the update whose filter matches no row
SetPaidNoRow(rows, calculationId) == rows

\* .update({ is_paid: true }).eq('id', calculationId): the table afterwards
SetPaid(rows, calculationId) ==
  {IF c.id = calculationId THEN [c EXCEPT !.is_paid = TRUE] ELSE c : c \in rows}

\* id uuid DEFAULT gen_random_uuid(): a fresh id. The calculation and the
\* number of payments it already has name a new payment
PaymentId(rows, calculation) ==
  <<calculation.id, Cardinality({p \in rows : p.wage_calculation_id = calculation.id})>>

\* the payment row carrying the gross amount
PaymentRowGross(id, calculation, today) ==
  [id |-> id, wage_calculation_id |-> calculation.id,
   employee_id |-> calculation.employee_id,
   amount |-> calculation.gross_amount,
   payment_date |-> today, payment_method |-> "cash",
   notes |-> <<"Payment for", calculation.period_type, "period:",
               calculation.period_start, "to", calculation.period_end>>]

\* the row of supabase.from('payments').insert([...])
PaymentRow(id, calculation, today) ==
  [id |-> id, wage_calculation_id |-> calculation.id,
   employee_id |-> calculation.employee_id,
   amount |-> calculation.net_amount,
   payment_date |-> today, payment_method |-> "cash",
   notes |-> <<"Payment for", calculation.period_type, "period:",
               calculation.period_start, "to", calculation.period_end>>]

\* the payments table without its references
PaymentReferencesUnchecked(p) == TRUE

\* wage_calculation_id REFERENCES wage_calculations(id),
\* employee_id REFERENCES employees(id)
PaymentReferencesHold(p) ==
  /\ \E c \in wage_calculations : c.id = p.wage_calculation_id
  /\ p.employee_id \in DOMAIN employees

\* markAsPaid up to its second await: the button of an unpaid row of the list,
\* the confirm(), the update of is_paid
MarkPaidUpdate(s, calculation, fault) ==
  /\ markPaid[s] = NULL
  /\ calculation \in calculations[s]
  /\ ~calculation.is_paid
  /\ IF fault
       THEN /\ alert' = Alert(s, AlertPaidError)
            /\ UNCHANGED <<wage_calculations, markPaid>>
       ELSE /\ wage_calculations' = SetPaid(wage_calculations, calculation.id)
            /\ markPaid' = [markPaid EXCEPT ![s] = [calculation |-> calculation]]
            /\ alert' = NULL
  /\ UNCHANGED <<employees, attendance, payments, nextId, calculations,
                 attendanceVars, calcVars, reportVars>>

\* markAsPaid from the update's answer on: the payment insert, then the alert
MarkPaidInsert(s, today, fault) ==
  /\ markPaid[s] # NULL
  /\ Cardinality(payments) < MaxPayments
  /\ LET p == PaymentRow(PaymentId(payments, markPaid[s].calculation),
                         markPaid[s].calculation, today)
     IN IF fault \/ ~PaymentReferencesHold(p)
          THEN /\ alert' = Alert(s, AlertPaidError)
               /\ UNCHANGED payments
          ELSE /\ payments' = payments \cup {p}
               /\ alert' = Alert(s, AlertPaid)
  /\ markPaid' = [markPaid EXCEPT ![s] = NULL]
  /\ UNCHANGED <<employees, attendance, wage_calculations, nextId, calculations,
                 attendanceVars, calcVars, reportVars>>

\* the attendance marked before the wages are calculated: each employee's
\* form of each date, as sequential submissions leave it
MarkedAttendance ==
  {AttendanceRow(<<e, d, 0>>,
     attendanceRecord(e, d,
       IF e = "e1"
         THEN (IF d % 2 = 1
                 THEN [status |-> "absent", overtime_hours |-> 0,
                       advance_taken |-> 30, notes |-> "advance"]
                 ELSE [status |-> "present", overtime_hours |-> 0,
                       advance_taken |-> 0, notes |-> ""])
         ELSE [status |-> "half-day", overtime_hours |-> 2,
               advance_taken |-> 0, notes |-> "late"])) :
     e \in EmpIds, d \in Dates}

\* new Date().toISOString().split('T')[0]: the day the payments are made
Today == MaxDate

Init ==
  /\ employees = [e \in EmpIds |-> RegisteredRates(e)]
  /\ attendance = MarkedAttendance
  /\ wage_calculations = {}
  /\ payments = {}
  /\ nextId = 1
  /\ InitSessions
  /\ employee = NULL
  /\ attendanceRecords = << >>
  /\ breakdown = NULL

Next ==
  \/ \E s \in Sessions, sel \in EmpIds \cup {NoSelection},
        start \in {1, NoDate}, end \in {MaxDate, NoDate},
        ptype \in {DefaultPeriodType}, fault \in {"none", "attendance", "insert"} :
        nextId <= MaxCalcs /\ calculateWages(s, sel, start, end, ptype, fault)
  \/ \E s \in Sessions, sel \in EmpIds \cup {NoSelection} : fetchCalculations(s, sel)
  \/ \E s \in Sessions, fault \in BOOLEAN :
        \E calculation \in calculations[s] : MarkPaidUpdate(s, calculation, fault)
  \/ \E s \in Sessions, fault \in BOOLEAN : MarkPaidInsert(s, Today, fault)

Spec == Init /\ [][Next]_vars

(***************************************************************************)
(* The wages and payments of one session while the rates of the employees *)
(* are raised.                                                             *)
(* The employee form is not among the sources: the update is the one the   *)
(* data model describes (the three rate fields are mutable).               *)
(***************************************************************************)
\* the rates an employee is raised to
RaisedRates == Rates(120, 25, 60)

\* the employee form saved with new rates: the row of the employee is updated
updateEmployee(e, rates) ==
  /\ e \in DOMAIN employees
  /\ employees[e] # rates
  /\ employees' = [employees EXCEPT ![e] = rates]
  /\ alert' = NULL
  /\ UNCHANGED <<attendance, wage_calculations, payments, nextId,
                 wagesVars, attendanceVars, calcVars, reportVars>>

NextRates ==
  \/ \E sel \in EmpIds \cup {NoSelection}, fault \in {"none", "attendance", "insert"} :
        nextId <= MaxCalcs
          /\ calculateWages("s1", sel, 1, MaxDate, DefaultPeriodType, fault)
  \/ \E sel \in EmpIds \cup {NoSelection} : fetchCalculations("s1", sel)
  \/ \E calculation \in calculations["s1"], fault \in BOOLEAN :
        MarkPaidUpdate("s1", calculation, fault)
  \/ \E fault \in BOOLEAN : MarkPaidInsert("s1", Today, fault)
  \/ \E e \in EmpIds : updateEmployee(e, RaisedRates)

SpecRates == Init /\ [][NextRates]_vars

(***************************************************************************)
(* Calculations of one session while the attendance of e1's first day is   *)
(* marked and re-marked: nothing is marked before the first calculation.   *)
(***************************************************************************)
InitCalc ==
  /\ employees = [e \in EmpIds |-> Rates(100, 20, 50)]
  /\ InitStore
  /\ InitSessions
  /\ employee = NULL
  /\ attendanceRecords = << >>
  /\ breakdown = NULL

NextCalc ==
  \/ \E sel \in EmpIds \cup {NoSelection, DeletedEmployee},
        start \in {1, MaxDate, NoDate}, end \in {1, MaxDate, NoDate},
        fault \in {"none", "attendance", "insert"} :
        nextId <= MaxCalcRuns
          /\ calculateWages("s1", sel, start, end, DefaultPeriodType, fault)
  \/ \E form \in AttendanceForms \cup {UnknownStatusForm} :
        SubmitLookup("s1", "e1", 1, form)
  \/ SubmitWrite("s1")

SpecCalc == InitCalc /\ [][NextCalc]_vars

(***************************************************************************)
(* Calculations of the sessions over every period of the dates, with the   *)
(* attendance of both employees marked for every date.                     *)
(***************************************************************************)
NextRange ==
  \E s \in Sessions, sel \in EmpIds \cup {NoSelection, DeletedEmployee},
     start \in Dates \cup {NoDate}, end \in Dates \cup {NoDate},
     fault \in {"none", "attendance", "insert"} :
     nextId <= MaxCalcRuns
       /\ calculateWages(s, sel, start, end, DefaultPeriodType, fault)

SpecRange == Init /\ [][NextRange]_vars

(***************************************************************************)
(* The foreign keys of the schema: rows deleted in the store, by any       *)
(* client the policies allow.                                              *)
(***************************************************************************)
\* a reference that lets the referencing rows stay
OnDeleteNoAction(rows, column, id) == rows

\* REFERENCES ...(id) ON DELETE CASCADE: the referencing rows left once the
\* row id is deleted
OnDeleteCascade(rows, column, id) == {r \in rows : r[column] # id}

\* DELETE FROM employees WHERE id = e
deleteEmployee(e) ==
  /\ e \in DOMAIN employees
  /\ employees' = [x \in DOMAIN employees \ {e} |-> employees[x]]
  /\ attendance' = OnDeleteCascade(attendance, "employee_id", e)
  /\ wage_calculations' = OnDeleteCascade(wage_calculations, "employee_id", e)
  /\ payments' =
       {p \in OnDeleteCascade(payments, "employee_id", e) :
          \A c \in wage_calculations \ wage_calculations' :
            p \in OnDeleteCascade(payments, "wage_calculation_id", c.id)}
  /\ alert' = NULL
  /\ UNCHANGED <<nextId, wagesVars, attendanceVars, calcVars, reportVars>>

\* DELETE FROM wage_calculations WHERE id = calculationId
deleteWageCalculation(calculationId) ==
  /\ \E c \in wage_calculations : c.id = calculationId
  /\ wage_calculations' = {c \in wage_calculations : c.id # calculationId}
  /\ payments' = OnDeleteCascade(payments, "wage_calculation_id", calculationId)
  /\ alert' = NULL
  /\ UNCHANGED <<employees, attendance, nextId, wagesVars, attendanceVars, calcVars,
                 reportVars>>

\* one session at work while rows are deleted in the store
NextDelete ==
  \/ \E sel \in EmpIds :
        nextId <= MaxCalcs
          /\ calculateWages("s1", sel, 1, MaxDate, DefaultPeriodType, "none")
  \/ fetchCalculations("s1", NoSelection)
  \/ \E calculation \in calculations["s1"] : MarkPaidUpdate("s1", calculation, FALSE)
  \/ MarkPaidInsert("s1", Today, FALSE)
  \/ \E e \in EmpIds, form \in AttendanceForms : SubmitLookup("s1", e, 1, form)
  \/ SubmitWrite("s1")
  \/ \E e \in EmpIds : deleteEmployee(e)
  \/ \E c \in wage_calculations : deleteWageCalculation(c.id)

SpecDelete == Init /\ [][NextDelete]_vars

(***************************************************************************)
(* calculateWages await by await, in the session s1.                       *)
(***************************************************************************)
\* a return that leaves the flag as it is
FinallySkipped(flag) == flag

\* finally { setCalculating(false) }
Finally(flag) == FALSE

\* the click on 'Calculate Wages' (disabled={calculating}) up to the first
\* await: the guard, setCalculating(true), the employee read sent
CalculateStart(sel, start, end) ==
  /\ ~calculating
  /\ IF sel = NoSelection \/ start = NoDate \/ end = NoDate
       THEN /\ alert' = Alert("s1", AlertSelectRange)
            /\ calculateRun' = Run("done", sel, start, end, 0, "validation")
            /\ UNCHANGED <<calculating, employee, attendanceRecords>>
       ELSE /\ alert' = NULL
            /\ calculating' = TRUE
            /\ calculateRun' = Run("employee", sel, start, end, 0, "none")
            /\ employee' = NULL
            /\ attendanceRecords' = << >>
  /\ UNCHANGED <<storeVars, wagesVars, attendanceVars, breakdown, reportVars>>

\* the answer of .from('employees') ... .single(), up to the next await
EmployeeAnswer ==
  /\ calculateRun.await = "employee"
  /\ LET r == calculateRun
         found == single(employees, r.selectedEmployee)
     IN /\ employee' = found
        /\ IF found = NULL
             THEN /\ alert' = Alert("s1", AlertNotFound)
                  /\ calculateRun' = [r EXCEPT !.await = "done", !.trips = @ + 1,
                                               !.exit = "not found"]
                  /\ calculating' = Finally(calculating)
             ELSE /\ alert' = NULL
                  /\ calculateRun' = [r EXCEPT !.await = "attendance", !.trips = @ + 1]
                  /\ UNCHANGED calculating
  /\ UNCHANGED <<storeVars, wagesVars, attendanceVars, attendanceRecords, breakdown,
                 reportVars>>

\* the answer of .from('attendance') ... .lte('date', endDate), the loop, the
\* amounts and setBreakdown, up to the next await
AttendanceAnswer(fault) ==
  /\ calculateRun.await = "attendance"
  /\ LET r == calculateRun
     IN IF Throws(fault)
          THEN /\ alert' = Alert("s1", AlertCalcError)
               /\ calculateRun' = [r EXCEPT !.await = "done", !.trips = @ + 1,
                                            !.exit = "error"]
               /\ calculating' = Finally(calculating)
               /\ UNCHANGED <<attendanceRecords, breakdown>>
          ELSE \E records \in Orderings(AttendanceInRange(attendance, r.selectedEmployee,
                                                          r.startDate, r.endDate)) :
                 /\ attendanceRecords' = records
                 /\ breakdown' = calculationBreakdown(employee, records)
                 /\ alert' = NULL
                 /\ calculateRun' = [r EXCEPT !.await = "insert", !.trips = @ + 1]
                 /\ UNCHANGED calculating
  /\ UNCHANGED <<storeVars, wagesVars, attendanceVars, employee, reportVars>>

\* the answer of .from('wage_calculations').insert([wageCalculation]), the
\* alert, the catch block and the finally block
InsertAnswer(fault) ==
  /\ calculateRun.await = "insert"
  /\ LET r == calculateRun
         insertError == fault \/ r.selectedEmployee \notin DOMAIN employees
         row == wageCalculation(nextId, r.selectedEmployee, r.startDate, r.endDate,
                                DefaultPeriodType, breakdown)
     IN /\ wage_calculations' =
             IF insertError THEN wage_calculations
             ELSE InsertCalculation(wage_calculations, row)
        /\ nextId' = IF insertError THEN nextId ELSE nextId + 1
        /\ alert' = Alert("s1", IF Throws(insertError) THEN AlertCalcError
                                                        ELSE AlertCalculated)
        /\ calculateRun' = [r EXCEPT !.await = "done", !.trips = @ + 1,
                                     !.exit = IF Throws(insertError) THEN "error"
                                                                     ELSE "success"]
        /\ calculating' = Finally(calculating)
  /\ UNCHANGED <<employees, attendance, payments, wagesVars, attendanceVars, employee,
                 attendanceRecords, breakdown, reportVars>>

\* the store answers the request the run waits for
Answer ==
  \/ EmployeeAnswer
  \/ \E fault \in BOOLEAN : AttendanceAnswer(fault)
  \/ \E fault \in BOOLEAN : InsertAnswer(fault)

NextSteps ==
  \/ \E sel \in EmpIds \cup {NoSelection, DeletedEmployee},
        start \in {1, NoDate}, end \in {MaxDate, NoDate} :
        nextId <= MaxCalcs /\ CalculateStart(sel, start, end)
  \/ Answer

\* every request is answered: no operation of the store blocks indefinitely
SpecSteps == Init /\ [][NextSteps]_vars /\ WF_vars(Answer)

(***************************************************************************)
(* One session with employee e1 selected and no other writer: each user    *)
(* action runs to its end, list refresh included, before the next starts.  *)
(***************************************************************************)
\* useState<string>(''): the employee selected in the session
SelectedInSession == "e1"

\* calculateWages from the click to the end of the fetchCalculations() it
\* starts on success. fault: the store call that fails
CalculateAndRefresh(start, end, fault) ==
  /\ IF Throws(fault = "attendance")
       THEN /\ alert' = Alert("s1", AlertCalcError)
            /\ UNCHANGED <<wage_calculations, nextId, calculations>>
       ELSE \E records \in Orderings(AttendanceInRange(attendance, SelectedInSession,
                                                       start, end)) :
              LET insertError == fault = "insert"
                  row == wageCalculation(nextId, SelectedInSession, start, end,
                           DefaultPeriodType,
                           calculationBreakdown(single(employees, SelectedInSession),
                                                records))
              IN /\ wage_calculations' =
                      IF insertError THEN wage_calculations
                      ELSE InsertCalculation(wage_calculations, row)
                 /\ nextId' = IF insertError THEN nextId ELSE nextId + 1
                 /\ alert' = Alert("s1", IF Throws(insertError) THEN AlertCalcError
                                                                 ELSE AlertCalculated)
                 /\ calculations' =
                      IF Throws(insertError) THEN calculations
                      ELSE [calculations EXCEPT !["s1"] =
                              FetchedCalculations(wage_calculations', SelectedInSession)]
  /\ UNCHANGED <<employees, attendance, payments, markPaid, attendanceVars, calcVars,
                 reportVars>>

\* markAsPaid from the click on 'Mark as Paid' of a listed row to the end of
\* the fetchCalculations() it starts on success; the catch block starts none.
\* fault: the store call that fails
MarkAsPaidAndRefresh(calculation, fault) ==
  /\ calculation \in calculations["s1"]
  /\ ~calculation.is_paid
  /\ IF fault = "update"
       THEN /\ alert' = Alert("s1", AlertPaidError)
            /\ UNCHANGED <<wage_calculations, payments, calculations>>
       ELSE LET p == PaymentRow(PaymentId(payments, calculation), calculation, Today)
            IN /\ wage_calculations' = SetPaid(wage_calculations, calculation.id)
               /\ IF fault = "insert" \/ ~PaymentReferencesHold(p)
                    THEN /\ alert' = Alert("s1", AlertPaidError)
                         /\ UNCHANGED <<payments, calculations>>
                    ELSE /\ payments' = payments \cup {p}
                         /\ alert' = Alert("s1", AlertPaid)
                         /\ calculations' =
                              [calculations EXCEPT !["s1"] =
                                 FetchedCalculations(wage_calculations', SelectedInSession)]
  /\ UNCHANGED <<employees, attendance, nextId, markPaid, attendanceVars, calcVars,
                 reportVars>>

NextSequential ==
  \/ \E start \in Dates, end \in Dates, fault \in {"none", "attendance", "insert"} :
        nextId <= MaxCalcRuns /\ CalculateAndRefresh(start, end, fault)
  \/ \E calculation \in calculations["s1"], fault \in {"none", "update", "insert"} :
        Cardinality(payments) < MaxPayments /\ MarkAsPaidAndRefresh(calculation, fault)

SpecSequential == Init /\ [][NextSequential]_vars

(***************************************************************************)
(* ReportModule: fetchEmployees, fetchPayments, fetchEmployeeSummaries,    *)
(* getTotalAmount, and the effect that starts the fetches. The store       *)
(* answers every fetch of the report screen: a fetch that fails only logs  *)
(* to the console and leaves what is shown as it is.                       *)
(***************************************************************************)
\* an employees row with the columns the report reads
EmployeeRecord(rates, active) ==
  [daily_wage |-> rates.daily_wage, overtime_rate |-> rates.overtime_rate,
   half_day_rate |-> rates.half_day_rate, is_active |-> active]

\* employees(*): the row of an employee, with its id
EmployeeRow(e) ==
  [id |-> e, daily_wage |-> employees[e].daily_wage,
   overtime_rate |-> employees[e].overtime_rate,
   half_day_rate |-> employees[e].half_day_rate,
   is_active |-> employees[e].is_active]

\* the employees in the order of their names
EmployeesByName == <<"e1", "e2">>

\* .order('name'): the ids of the rows, by name
OrderByName(ids) ==
  LET Stored(e) == e \in ids
  IN SelectSeq(EmployeesByName, Stored)

\* a fetch in flight: its kind and what its closure captured
Fetch(kind, sel, start, end, emps) ==
  [kind |-> kind, selectedEmployee |-> sel, startDate |-> start, endDate |-> end,
   employees |-> emps]

\* the range without its first day
PaymentsInRangeAfterStart(rows, start, end) ==
  {p \in rows : p.payment_date > start /\ p.payment_date <= end}

\* .gte('payment_date', startDate).lte('payment_date', endDate)
PaymentsInRange(rows, start, end) ==
  {p \in rows : p.payment_date >= start /\ p.payment_date <= end}

\* if (selectedEmployee !== 'all') query = query.eq('employee_id', selectedEmployee)
PaymentsOfSelected(rows, sel) ==
  IF sel # AllEmployees THEN {p \in rows : p.employee_id = sel} ELSE rows

\* .order('payment_date', { ascending: false }): the orders the store may
\* return the rows in (rows of one date in any order)
OrderByPaymentDateDesc(rows) ==
  {q \in Orderings(rows) :
     \A i, j \in DOMAIN q : i < j => q[i].payment_date >= q[j].payment_date}

\* select('*, employee:employees(*), calculation:wage_calculations(*)')
PaymentReport(p) ==
  [id |-> p.id, wage_calculation_id |-> p.wage_calculation_id,
   employee_id |-> p.employee_id, amount |-> p.amount,
   payment_date |-> p.payment_date, payment_method |-> p.payment_method,
   notes |-> p.notes,
   employee |-> EmployeeRow(p.employee_id),
   calculation |-> CHOOSE c \in wage_calculations : c.id = p.wage_calculation_id]

\* .select('employee_id, amount, payment_date')
PaymentData(p) ==
  [employee_id |-> p.employee_id, amount |-> p.amount, payment_date |-> p.payment_date]

\* paymentData?.forEach((payment) => {...}): the summaryMap afterwards
RECURSIVE summaryMap(_, _)
summaryMap(map, paymentData) ==
  IF paymentData = << >> THEN map
  ELSE LET payment == Head(paymentData)
           existing == IF payment.employee_id \in DOMAIN map
                         THEN map[payment.employee_id]
                         ELSE [total |-> 0, count |-> 0, lastDate |-> payment.payment_date]
           updated == [total |-> existing.total + payment.amount,
                       count |-> existing.count + 1,
                       lastDate |-> IF payment.payment_date > existing.lastDate
                                      THEN payment.payment_date
                                      ELSE existing.lastDate]
       IN summaryMap([e \in DOMAIN map \cup {payment.employee_id} |->
                        IF e = payment.employee_id THEN updated ELSE map[e]],
                     Tail(paymentData))

\* for (const emp of employees) summaries.push({...}), then
\* summaries.filter((s) => s.paymentCount > 0)
summaries(emps, map) ==
  LET summary(emp) ==
        IF emp.id \in DOMAIN map
          THEN [employee |-> emp,
                totalPayments |-> map[emp.id].total,
                paymentCount |-> map[emp.id].count,
                lastPaymentDate |-> map[emp.id].lastDate]
          ELSE [employee |-> emp, totalPayments |-> 0, paymentCount |-> 0,
                lastPaymentDate |-> NoDate]
      Paid(s) == s.paymentCount > 0
  IN SelectSeq([i \in DOMAIN emps |-> summary(emps[i])], Paid)

\* payments.reduce((sum, payment) => sum + payment.amount, 0)
RECURSIVE reduceAmount(_)
reduceAmount(list) ==
  IF list = << >> THEN 0 ELSE Head(list).amount + reduceAmount(Tail(list))

getTotalAmount == reduceAmount(reportPayments)

\* useEffect(..., [selectedEmployee, startDate, endDate]): the fetches the
\* effect starts after a render with this filter and this employees state
FilterEffect(sel, start, end, emps) ==
  IF start # NoDate /\ end # NoDate
    THEN {Fetch("payments", sel, start, end, << >>),
          Fetch("summaries", AllEmployees, start, end, emps)}
    ELSE {}

\* onChange of the employee filter (its options are 'all' and the employees
\* loaded), the start date or the end date: the state is set, the component
\* renders, the effect runs
setFilter(sel, start, end) ==
  /\ <<sel, start, end>> # <<selectedEmployee, startDate, endDate>>
  /\ \/ start = startDate /\ end = endDate
     \/ sel = selectedEmployee /\ end = endDate
     \/ sel = selectedEmployee /\ start = startDate
  /\ sel = AllEmployees \/ \E i \in DOMAIN reportEmployees : reportEmployees[i].id = sel
  /\ Cardinality(fetching \cup FilterEffect(sel, start, end, reportEmployees)) <= MaxInFlight
  /\ selectedEmployee' = sel
  /\ startDate' = start
  /\ endDate' = end
  /\ fetching' = fetching \cup FilterEffect(sel, start, end, reportEmployees)
  /\ UNCHANGED <<storeVars, wagesVars, attendanceVars, alert, calcVars,
                 reportEmployees, reportPayments, employeeSummaries>>

\* fetchEmployees from its await on: setEmployees(data || [])
fetchEmployees(f) ==
  /\ f \in fetching /\ f.kind = "employees"
  /\ fetching' = fetching \ {f}
  /\ reportEmployees' =
       LET ids == OrderByName(DOMAIN employees)
       IN [i \in DOMAIN ids |-> EmployeeRow(ids[i])]
  /\ UNCHANGED <<storeVars, wagesVars, attendanceVars, alert, calcVars,
                 reportPayments, employeeSummaries, selectedEmployee, startDate, endDate>>

\* fetchPayments from its await on: setPayments(data || [])
fetchPayments(f) ==
  /\ f \in fetching /\ f.kind = "payments"
  /\ fetching' = fetching \ {f}
  /\ \E data \in OrderByPaymentDateDesc(
                   PaymentsOfSelected(PaymentsInRange(payments, f.startDate, f.endDate),
                                      f.selectedEmployee)) :
       reportPayments' = [i \in DOMAIN data |-> PaymentReport(data[i])]
  /\ UNCHANGED <<storeVars, wagesVars, attendanceVars, alert, calcVars,
                 reportEmployees, employeeSummaries, selectedEmployee, startDate, endDate>>

\* fetchEmployeeSummaries from its await on: the map, the loop over the
\* employees of the render that started it, setEmployeeSummaries
fetchEmployeeSummaries(f) ==
  /\ f \in fetching /\ f.kind = "summaries"
  /\ fetching' = fetching \ {f}
  /\ \E rows \in Orderings(PaymentsInRange(payments, f.startDate, f.endDate)) :
       employeeSummaries' =
         summaries(f.employees,
                   summaryMap(<< >>, [i \in DOMAIN rows |-> PaymentData(rows[i])]))
  /\ UNCHANGED <<storeVars, wagesVars, attendanceVars, alert, calcVars,
                 reportEmployees, reportPayments, selectedEmployee, startDate, endDate>>

\* the calculations the reported payments belong to: each employee's
\* attendance of MarkedAttendance calculated (twice for e1) and marked as paid
ReportCalculations ==
  LET rates(e) == IF e = "e1" THEN Rates(100, 20, 50) ELSE Rates(80, 10, 40)
      row(id, e) ==
        wageCalculation(id, e, 1, MaxDate, DefaultPeriodType,
          calculationBreakdown(rates(e),
            CHOOSE q \in Orderings(AttendanceInRange(MarkedAttendance, e, 1, MaxDate)) : TRUE))
  IN SetPaid(SetPaid(SetPaid({row(1, "e1"), row(2, "e1"), row(3, "e2")}, 1), 2), 3)

\* the first day of the month, as setDefaultDates sets it
FirstDay == 1

\* the payments of the reported calculations: e1 was paid on the first day
\* and today, e2 on the second day
ReportedPayments ==
  {PaymentRow(<<c.id, 0>>, c,
              IF c.id = 1 THEN FirstDay ELSE IF c.id = 2 THEN Today ELSE 2) :
     c \in ReportCalculations}

\* the report screen after it was mounted: fetchEmployees is in flight, the
\* default dates are set, and the effect of that render has started the two
\* payment fetches. The store holds an active and an inactive employee and
\* one payment for each calculation
InitReport ==
  /\ employees = [e \in EmpIds |->
                    IF e = "e1" THEN EmployeeRecord(Rates(100, 20, 50), TRUE)
                    ELSE EmployeeRecord(Rates(80, 10, 40), FALSE)]
  /\ attendance = MarkedAttendance
  /\ wage_calculations = ReportCalculations
  /\ payments = ReportedPayments
  /\ nextId = Cardinality(ReportCalculations) + 1
  /\ calculations = [s \in Sessions |-> {}]
  /\ markPaid = [s \in Sessions |-> NULL]
  /\ submit = [s \in Sessions |-> NULL]
  /\ alert = NULL
  /\ employee = NULL
  /\ attendanceRecords = << >>
  /\ breakdown = NULL
  /\ calculating = FALSE
  /\ calculateRun = NoRun
  /\ reportEmployees = << >>
  /\ reportPayments = << >>
  /\ employeeSummaries = << >>
  /\ selectedEmployee = AllEmployees
  /\ startDate = FirstDay
  /\ endDate = Today
  /\ fetching = {Fetch("employees", AllEmployees, NoDate, NoDate, << >>)}
                  \cup FilterEffect(AllEmployees, FirstDay, Today, << >>)

NextReport ==
  \/ \E sel \in {AllEmployees, "e1"}, start \in {FirstDay, Today}, end \in {FirstDay, Today} :
        setFilter(sel, start, end)
  \/ \E f \in fetching : fetchEmployees(f)
  \/ \E f \in fetching : fetchPayments(f)
  \/ \E f \in fetching : fetchEmployeeSummaries(f)

SpecReport == InitReport /\ [][NextReport]_vars

(***************************************************************************)
(* Properties of the breakdown (checked under SpecBreakdown).              *)
(***************************************************************************)
\* the records of one status
CountStatus(records, st) == Cardinality({i \in DOMAIN records : records[i].status = st})

RECURSIVE TotalOvertime(_)
TotalOvertime(records) ==
  IF records = << >> THEN 0
  ELSE records[Len(records)].overtime_hours + TotalOvertime(SubSeq(records, 1, Len(records) - 1))

RECURSIVE TotalAdvance(_)
TotalAdvance(records) ==
  IF records = << >> THEN 0
  ELSE records[Len(records)].advance_taken + TotalAdvance(SubSeq(records, 1, Len(records) - 1))

\* C1: the three day counters add up to the number of records, gross is
\* base + half-day + overtime, net is gross - advances, and net is negative
\* (not clamped) whenever the advances exceed gross.
C1_BreakdownIdentities ==
  breakdown # NULL =>
    /\ breakdown.presentDays + breakdown.halfDays + breakdown.absentDays
         = Len(attendanceRecords)
    /\ breakdown.grossAmount
         = breakdown.baseWage + breakdown.halfDayAmount + breakdown.overtimeAmount
    /\ breakdown.netAmount = breakdown.grossAmount - breakdown.totalAdvances
    /\ (breakdown.totalAdvances > breakdown.grossAmount => breakdown.netAmount < 0)

\* a breakdown of paid and unpaid days whose advances exceed a positive gross
C1_Witness ==
  /\ breakdown # NULL
  /\ breakdown.halfDays > 0 /\ breakdown.absentDays > 0
  /\ breakdown.grossAmount > 0
  /\ breakdown.totalAdvances > breakdown.grossAmount
  /\ breakdown.netAmount < 0

\* the scenario of the specification: rates 100/20/50, five days
ScenarioRecords ==
  << [status |-> "present", overtime_hours |-> 2, advance_taken |-> 0],
     [status |-> "present", overtime_hours |-> 0, advance_taken |-> 30],
     [status |-> "present", overtime_hours |-> 0, advance_taken |-> 0],
     [status |-> "half-day", overtime_hours |-> 0, advance_taken |-> 0],
     [status |-> "absent", overtime_hours |-> 0, advance_taken |-> 0] >>

ScenarioBreakdown ==
  [presentDays |-> 3, halfDays |-> 1, absentDays |-> 1, totalOvertimeHours |-> 2,
   baseWage |-> 300, overtimeAmount |-> 40, halfDayAmount |-> 50,
   totalAdvances |-> 30, grossAmount |-> 390, netAmount |-> 360]

\* C2: base wage is the number of present records times daily_wage, half-day
\* amount the number of half-day records times half_day_rate, overtime amount
\* the overtime hours of all records (of any status) times overtime_rate, the
\* advances the sum over all records; the 100/20/50 scenario gives
\* 300/50/40/390/30/360.
C2_BreakdownAmounts ==
  breakdown # NULL =>
    /\ breakdown.baseWage = CountStatus(attendanceRecords, "present") * employee.daily_wage
    /\ breakdown.halfDayAmount
         = CountStatus(attendanceRecords, "half-day") * employee.half_day_rate
    /\ breakdown.overtimeAmount = TotalOvertime(attendanceRecords) * employee.overtime_rate
    /\ breakdown.totalAdvances = TotalAdvance(attendanceRecords)
    /\ (employee = Rates(100, 20, 50) /\ attendanceRecords = ScenarioRecords
          => breakdown = ScenarioBreakdown)

\* the scenario, calculated
C2_Witness ==
  /\ employee = Rates(100, 20, 50)
  /\ attendanceRecords = ScenarioRecords
  /\ breakdown = ScenarioBreakdown

(***************************************************************************)
(* Properties of markAsPaid and the payments (checked under Spec).         *)
(***************************************************************************)
PaymentsOf(calculationId) == {p \in payments : p.wage_calculation_id = calculationId}

\* C3: there is at most one Payment per WageCalculation, however often and
\* from wherever markPaid is called on it.
C3_OnePaymentPerCalculation ==
  \A c \in wage_calculations : Cardinality(PaymentsOf(c.id)) <= 1

\* C4: once no markPaid call is running, every calculation flagged paid has a
\* Payment row, also when the payment insert failed.
C4_PaidHasPayment ==
  (\A s \in Sessions : markPaid[s] = NULL) =>
    \A c \in wage_calculations : c.is_paid => PaymentsOf(c.id) # {}

\* C5: markPaid whose two writes succeed: the update flips is_paid of that
\* calculation and of no other and touches no payment; the insert adds exactly
\* one Payment of that calculation, with the stored row's employee_id and
\* net_amount, and touches no calculation and no other payment.
C5_MarkPaidEffect ==
  [][\A s \in Sessions :
       /\ (markPaid[s] = NULL /\ markPaid'[s] # NULL) =>
            LET id == markPaid'[s].calculation.id
            IN /\ \E c \in wage_calculations : c.id = id
               /\ \A c \in wage_calculations :
                    IF c.id = id THEN [c EXCEPT !.is_paid = TRUE] \in wage_calculations'
                                 ELSE c \in wage_calculations'
               /\ Cardinality(wage_calculations') = Cardinality(wage_calculations)
               /\ payments' = payments
       /\ (markPaid[s] # NULL /\ alert' = Alert(s, AlertPaid)) =>
            LET id == markPaid[s].calculation.id
            IN /\ wage_calculations' = wage_calculations
               /\ Cardinality(payments' \ payments) = 1
               /\ payments \subseteq payments'
               /\ \A p \in payments' \ payments :
                    /\ p.wage_calculation_id = id
                    /\ \E c \in wage_calculations :
                         /\ c.id = id /\ c.is_paid
                         /\ p.employee_id = c.employee_id
                         /\ p.amount = c.net_amount]_vars

\* a calculation with advances, paid by one payment of its net amount
C5_Witness ==
  /\ alert # NULL /\ alert.message = AlertPaid
  /\ \E c \in wage_calculations :
       /\ c.is_paid /\ c.net_amount # c.gross_amount /\ c.net_amount # 0
       /\ \E p \in payments : PaymentsOf(c.id) = {p} /\ p.amount = c.net_amount

\* C6: every Payment references a stored calculation that is paid, whose
\* net_amount is the payment's amount and whose employee is the payment's.
C6_PaymentMatchesCalculation ==
  \A p \in payments :
    \E c \in wage_calculations :
      /\ c.id = p.wage_calculation_id
      /\ c.is_paid
      /\ p.amount = c.net_amount
      /\ p.employee_id = c.employee_id

\* payments of a calculation whose net and gross differ
C6_Witness ==
  \E p \in payments :
    \E c \in wage_calculations :
      c.id = p.wage_calculation_id /\ c.net_amount # c.gross_amount /\ p.amount # 0

\* C7: is_paid starts false, becomes true only in the update of markAsPaid,
\* and once true stays true.
C7_IsPaidMonotonic ==
  [][/\ \A c \in wage_calculations : \A d \in wage_calculations' :
          (d.id = c.id /\ c.is_paid) => d.is_paid
     /\ \A d \in wage_calculations' :
          (\A c \in wage_calculations : c.id # d.id) => ~d.is_paid
     /\ (\E c \in wage_calculations : \E d \in wage_calculations' :
             d.id = c.id /\ ~c.is_paid /\ d.is_paid)
          => \E s \in Sessions : markPaid[s] = NULL /\ markPaid'[s] # NULL]_vars

\* a paid calculation that a session's stale list still shows as unpaid,
\* after a second mark-as-paid went through on it
C7_Witness ==
  \E c \in wage_calculations :
    /\ c.is_paid
    /\ Cardinality(PaymentsOf(c.id)) = 2
    /\ \E s \in Sessions : [c EXCEPT !.is_paid = FALSE] \in calculations[s]

(***************************************************************************)
(* Properties of the attendance upsert (checked under SpecAttendance).     *)
(***************************************************************************)
\* the row holds what the record submitted
HoldsRecord(r, rec) ==
  /\ r.employee_id = rec.employee_id /\ r.date = rec.date
  /\ r.status = rec.status
  /\ r.overtime_hours = rec.overtime_hours
  /\ r.advance_taken = rec.advance_taken
  /\ r.notes = rec.notes

\* C8: a submission that follows the earlier ones of its key (its lookup saw
\* what the table now holds for the key) succeeds and leaves exactly one row
\* for the key, holding its own status, overtime, advance and notes.
C8_LaterSubmissionWins ==
  [][\A s \in Sessions :
       (/\ submit[s] # NULL /\ submit'[s] = NULL
        /\ submit[s].existing
             = maybeSingle(attendance, submit[s].attendanceRecord.employee_id,
                           submit[s].attendanceRecord.date))
       => LET rec == submit[s].attendanceRecord
              now == AttendanceOf(attendance', rec.employee_id, rec.date)
          IN /\ alert' = Alert(s, AlertMarked)
             /\ Cardinality(now) = 1
             /\ \A r \in now : HoldsRecord(r, rec)]_vars

\* a key marked a second time: its one row was updated and holds the values
\* the session that was just answered had submitted
C8_Witness ==
  /\ alert # NULL /\ alert.message = AlertMarked
  /\ \E r \in attendance :
       /\ r.updated
       /\ r.status = "absent" /\ r.advance_taken = 30 /\ r.notes = "advance"
       /\ AttendanceOf(attendance, r.employee_id, r.date) = {r}

\* C9: there is at most one attendance row per (employee_id, date), under
\* any interleaving of the submissions.
C9_OneRowPerEmployeeDate ==
  \A r1, r2 \in attendance :
    (r1.employee_id = r2.employee_id /\ r1.date = r2.date) => r1 = r2

\* two submissions raced for one key and the table kept one row
C9_Witness ==
  /\ alert # NULL /\ alert.message = AlertMarkError
  /\ \E r \in attendance : AttendanceOf(attendance, r.employee_id, r.date) = {r}

\* C10: a submission whose lookup found no row, and that writes after another
\* submission has stored a row for the key, is not rejected: it ends with the
\* success alert and the key's row holds the values of one of the two.
C10_ConcurrentSubmitResolved ==
  [][\A s \in Sessions :
       (/\ submit[s] # NULL /\ submit'[s] = NULL
        /\ submit[s].existing = NULL
        /\ AttendanceOf(attendance, submit[s].attendanceRecord.employee_id,
                         submit[s].attendanceRecord.date) # {})
       => /\ alert' = Alert(s, AlertMarked)
          /\ Cardinality(AttendanceOf(attendance', submit[s].attendanceRecord.employee_id,
                                      submit[s].attendanceRecord.date)) = 1]_vars

(***************************************************************************)
(* Properties of the report (checked under SpecReport).                    *)
(***************************************************************************)
RECURSIVE SumTotalPayments(_)
SumTotalPayments(list) ==
  IF list = << >> THEN 0
  ELSE list[Len(list)].totalPayments + SumTotalPayments(SubSeq(list, 1, Len(list) - 1))

RECURSIVE SumAmount(_)
SumAmount(rows) ==
  IF rows = {} THEN 0
  ELSE LET p == CHOOSE x \in rows : TRUE IN p.amount + SumAmount(rows \ {p})

\* the stored payments dated within [start, end]
StoredInRange(start, end) ==
  {p \in payments : start <= p.payment_date /\ p.payment_date <= end}

\* the summaries fetch that the step completes
SummariesCompleted(f) == f \in fetching /\ f.kind = "summaries" /\ f \notin fetching'

\* the payments fetch that the step completes
PaymentsCompleted(f) == f \in fetching /\ f.kind = "payments" /\ f \notin fetching'

\* C11: a summary computed for a date range has no entry of an employee
\* without a payment in the range, and its totalPayments add up to the sum of
\* the amounts of the flat payment list of that range over all employees.
C11_SummaryTotalsMatchList ==
  [][\A f \in fetching :
       SummariesCompleted(f) =>
         /\ \A i \in DOMAIN employeeSummaries' :
              /\ employeeSummaries'[i].paymentCount > 0
              /\ \E p \in StoredInRange(f.startDate, f.endDate) :
                   p.employee_id = employeeSummaries'[i].employee.id
         /\ SumTotalPayments(employeeSummaries')
              = SumAmount(StoredInRange(f.startDate, f.endDate))]_vars

\* C12: a summary computed for a date range has, for every employee of the
\* store (active or not) with a payment in the range, exactly one entry, whose
\* totalPayments is the sum of those payments' amounts, whose paymentCount is
\* their number and whose lastPaymentDate is the latest of their dates.
C12_SummaryPerEmployee ==
  [][\A f \in fetching :
       SummariesCompleted(f) =>
         \A e \in DOMAIN employees :
           LET paid == {p \in StoredInRange(f.startDate, f.endDate) : p.employee_id = e}
               entries == {i \in DOMAIN employeeSummaries' :
                             employeeSummaries'[i].employee.id = e}
           IN paid # {} =>
                /\ Cardinality(entries) = 1
                /\ \A i \in entries :
                     /\ employeeSummaries'[i].totalPayments = SumAmount(paid)
                     /\ employeeSummaries'[i].paymentCount = Cardinality(paid)
                     /\ \E p \in paid :
                          /\ employeeSummaries'[i].lastPaymentDate = p.payment_date
                          /\ \A x \in paid : x.payment_date <= p.payment_date]_vars

\* C13: the list a payments fetch returns holds exactly the stored payments
\* with start <= payment_date <= end, of the selected employee when one is
\* selected, each once and joined with its employee and its calculation, in
\* non-increasing order of payment_date.
C13_ListPayments ==
  [][\A f \in fetching :
       PaymentsCompleted(f) =>
         LET wanted == {p \in payments :
                          /\ f.startDate <= p.payment_date
                          /\ p.payment_date <= f.endDate
                          /\ (f.selectedEmployee # AllEmployees
                                => p.employee_id = f.selectedEmployee)}
             list == reportPayments'
         IN /\ {list[i].id : i \in DOMAIN list} = {p.id : p \in wanted}
            /\ Len(list) = Cardinality(wanted)
            /\ \A i \in DOMAIN list :
                 /\ \E p \in wanted :
                      /\ p.id = list[i].id /\ p.amount = list[i].amount
                      /\ p.payment_date = list[i].payment_date
                      /\ p.employee_id = list[i].employee_id
                      /\ p.wage_calculation_id = list[i].wage_calculation_id
                 /\ list[i].employee = EmployeeRow(list[i].employee_id)
                 /\ list[i].calculation \in wage_calculations
                 /\ list[i].calculation.id = list[i].wage_calculation_id
            /\ \A i, j \in DOMAIN list :
                 i < j => list[i].payment_date >= list[j].payment_date]_vars

\* the list of e1's two payments, the later one first, while the store
\* holds a payment of e2 as well
C13_Witness ==
  /\ Len(reportPayments) = 2
  /\ reportPayments[1].employee_id = "e1" /\ reportPayments[2].employee_id = "e1"
  /\ reportPayments[1].payment_date > reportPayments[2].payment_date
  /\ \E p \in payments : p.employee_id = "e2"
  /\ fetching = {}

(***************************************************************************)
(* Properties of calculateWages (checked under SpecCalc).                  *)
(***************************************************************************)
\* the step showed this alert of calculateWages
CalcAlert(message) == alert' # NULL /\ alert'.message = message

\* the calculations the step stored
NewCalculations ==
  {c \in wage_calculations' : \A x \in wage_calculations : x.id # c.id}

\* the attendance rows a stored calculation's period covers
RecordsOf(c) ==
  {r \in attendance : /\ r.employee_id = c.employee_id
                      /\ c.period_start <= r.date /\ r.date <= c.period_end}

\* C14: no WageCalculation is stored for a request with an empty date range
\* or with period_end earlier than period_start: such a request fails with
\* a validation error.
C14_InvalidRangeRejected ==
  \A c \in wage_calculations :
    /\ c.period_start # NoDate /\ c.period_end # NoDate
    /\ c.period_start <= c.period_end

\* C15: a calculateWages run whose employee does not resolve, or whose
\* attendance read or insert fails, shows its error, does not insert on a
\* retry, and leaves the stored calculations as they were; the success alert
\* is shown only when a row was stored.
C15_CalculateErrorsSurface ==
  [][/\ (CalcAlert(AlertNotFound) \/ CalcAlert(AlertCalcError))
          => wage_calculations' = wage_calculations /\ nextId' = nextId
     /\ CalcAlert(AlertCalculated) => wage_calculations' # wage_calculations]_vars

\* a failed calculation after a stored one
C15_Witness ==
  /\ alert # NULL /\ alert.message = AlertCalcError
  /\ wage_calculations # {}

\* C16: a calculation stored for an employee without an attendance record in
\* the requested range has day counts, overtime hours and all six amounts 0.
C16_EmptyRangeZero ==
  [][\A c \in NewCalculations :
       RecordsOf(c) = {} =>
         /\ CalcAlert(AlertCalculated)
         /\ c.present_days = 0 /\ c.half_days = 0 /\ c.absent_days = 0
         /\ c.total_overtime_hours = 0
         /\ c.base_wage = 0 /\ c.overtime_amount = 0 /\ c.half_day_amount = 0
         /\ c.total_advances = 0 /\ c.gross_amount = 0 /\ c.net_amount = 0]_vars

\* e2, who has no attendance, calculated over a proper range while e1 has
\* an attendance record in it
C16_Witness ==
  /\ alert # NULL /\ alert.message = AlertCalculated
  /\ \E c \in wage_calculations :
       /\ c.employee_id = "e2" /\ c.period_start < c.period_end
       /\ c.gross_amount = 0 /\ c.present_days = 0
       /\ RecordsOf(c) = {}
       /\ \E r \in attendance : c.period_start <= r.date /\ r.date <= c.period_end

\* C17: a successful calculation adds exactly one row, unpaid and with an
\* id of its own, and leaves every stored row as it was, also when a row of
\* the same employee and period is already stored.
C17_CalculationInsertsOneRow ==
  [][CalcAlert(AlertCalculated) =>
       \E c \in wage_calculations' :
         /\ c \notin wage_calculations
         /\ wage_calculations' = wage_calculations \cup {c}
         /\ ~c.is_paid
         /\ \A x \in wage_calculations : x.id # c.id]_vars

\* two stored rows of the same employee and the same period
C17_Witness ==
  \E c1, c2 \in wage_calculations :
    /\ c1.id # c2.id
    /\ c1.employee_id = c2.employee_id
    /\ c1.period_start = c2.period_start /\ c1.period_end = c2.period_end
    /\ c1.period_start <= c1.period_end

(***************************************************************************)
(* Stored calculations against the store they were computed from.          *)
(***************************************************************************)
RECURSIVE SumOvertime(_)
SumOvertime(rows) ==
  IF rows = {} THEN 0
  ELSE LET r == CHOOSE x \in rows : TRUE IN r.overtime_hours + SumOvertime(rows \ {r})

RECURSIVE SumAdvances(_)
SumAdvances(rows) ==
  IF rows = {} THEN 0
  ELSE LET r == CHOOSE x \in rows : TRUE IN r.advance_taken + SumAdvances(rows \ {r})

\* the derived fields of a stored calculation
Derived(c) ==
  [present_days |-> c.present_days, half_days |-> c.half_days,
   absent_days |-> c.absent_days, total_overtime_hours |-> c.total_overtime_hours,
   base_wage |-> c.base_wage, overtime_amount |-> c.overtime_amount,
   half_day_amount |-> c.half_day_amount, total_advances |-> c.total_advances,
   gross_amount |-> c.gross_amount, net_amount |-> c.net_amount]

\* the derived fields that rates and a set of attendance rows call for
DerivedFrom(rates, rows) ==
  LET present == Cardinality({r \in rows : r.status = "present"})
      half == Cardinality({r \in rows : r.status = "half-day"})
      absent == Cardinality({r \in rows : r.status = "absent"})
      base == present * rates.daily_wage
      overtime == SumOvertime(rows) * rates.overtime_rate
      halfAmount == half * rates.half_day_rate
  IN [present_days |-> present, half_days |-> half, absent_days |-> absent,
      total_overtime_hours |-> SumOvertime(rows),
      base_wage |-> base, overtime_amount |-> overtime,
      half_day_amount |-> halfAmount, total_advances |-> SumAdvances(rows),
      gross_amount |-> base + halfAmount + overtime,
      net_amount |-> base + halfAmount + overtime - SumAdvances(rows)]

\* C18 as stated: in every state each stored calculation's derived fields
\* are the breakdown of its employee's rates and of the employee's
\* attendance rows of the period in that state.
C18_CalculationMatchesStore ==
  \A c \in wage_calculations :
    Derived(c) = DerivedFrom(employees[c.employee_id], RecordsOf(c))

\* C18 amended: each calculation is stored with the breakdown of its
\* employee's rates and of the employee's attendance rows of the period as
\* the store holds them at that moment, and its derived fields never change
\* afterwards, also when attendance of the period is re-marked.
C18_CalculationIsSnapshot ==
  [][/\ \A c \in NewCalculations :
          Derived(c) = DerivedFrom(employees[c.employee_id], RecordsOf(c))
     /\ \A c \in wage_calculations :
          \E d \in wage_calculations' : d.id = c.id /\ Derived(d) = Derived(c)]_vars

\* a stored calculation of a worked day that was re-marked afterwards: its
\* fields still are the breakdown of the day as first marked
C18_Witness ==
  \E c \in wage_calculations :
    /\ c.present_days = 1 /\ c.gross_amount > 0
    /\ \E r \in RecordsOf(c) : r.updated /\ r.status = "absent"
    /\ Derived(c) # DerivedFrom(employees[c.employee_id], RecordsOf(c))

\* C19: a change of an employee's rates leaves every stored calculation and
\* every payment as it was, and a calculation computed afterwards has the
\* amounts of the rates the store holds when it is computed.
C19_RateChangeAffectsFuture ==
  [][/\ (\E e \in DOMAIN employees : employees'[e] # employees[e])
          => wage_calculations' = wage_calculations /\ payments' = payments
     /\ \A c \in NewCalculations :
          /\ c.base_wage = c.present_days * employees[c.employee_id].daily_wage
          /\ c.half_day_amount = c.half_days * employees[c.employee_id].half_day_rate
          /\ c.overtime_amount
               = c.total_overtime_hours * employees[c.employee_id].overtime_rate]_vars

\* e2 calculated and paid at the raised rates after e2's rates were raised
C19_Witness ==
  /\ employees["e2"] = RaisedRates
  /\ \E c \in wage_calculations :
       /\ c.employee_id = "e2" /\ c.half_days > 0
       /\ c.half_day_amount = c.half_days * RaisedRates.half_day_rate
       /\ \E p \in payments : p.wage_calculation_id = c.id /\ p.amount = c.net_amount

C21_CountsInRangeRecords ==
  [][\A c \in NewCalculations :
       LET counted == {r \in attendance :
                         /\ r.employee_id = c.employee_id
                         /\ c.period_start <= r.date /\ r.date <= c.period_end}
       IN /\ c.present_days + c.half_days + c.absent_days = Cardinality(counted)
          /\ c.present_days = Cardinality({r \in counted : r.status = "present"})
          /\ c.half_days = Cardinality({r \in counted : r.status = "half-day"})
          /\ c.absent_days = Cardinality({r \in counted : r.status = "absent"})
          /\ c.total_overtime_hours = SumOvertime(counted)
          /\ c.total_advances = SumAdvances(counted)]_vars

\* a calculation of e1 over the single day MaxDate: it counted that day's
\* row, while e1 has rows of other days and e2 has a row of that day
C21_Witness ==
  \E c \in wage_calculations :
    /\ c.employee_id = "e1"
    /\ c.period_start = MaxDate /\ c.period_end = MaxDate
    /\ c.present_days + c.half_days + c.absent_days = 1
    /\ \E r \in attendance : r.employee_id = "e1" /\ r.date < MaxDate
    /\ \E r \in attendance : r.employee_id = "e2" /\ r.date = MaxDate

(***************************************************************************)
(* Statuses of the attendance rows (checked under SpecCalc).               *)
(***************************************************************************)
\* C22: a record whose status is none of present, half-day, absent is
\* rejected by the store, on insert and on update, so that no such row is
\* ever counted; each row a calculation counts adds one to exactly the
\* counter of its status.
C22_StatusCountedOnce ==
  [][/\ \A r \in attendance' : r.status \in Statuses
     /\ \A s \in Sessions :
          (/\ submit[s] # NULL /\ submit'[s] = NULL
           /\ submit[s].attendanceRecord.status \notin Statuses)
          => alert' = Alert(s, AlertMarkError) /\ attendance' = attendance
     /\ \A c \in NewCalculations :
          /\ c.present_days + c.half_days + c.absent_days = Cardinality(RecordsOf(c))
          /\ \A r \in RecordsOf(c) :
               /\ r.status = "present" => c.present_days >= 1
               /\ r.status = "half-day" => c.half_days >= 1
               /\ r.status = "absent" => c.absent_days >= 1]_vars

\* a re-mark with an unknown status was rejected, the row of the day keeps
\* its status, and a calculation has counted the day once
C22_Witness ==
  /\ alert # NULL /\ alert.message = AlertMarkError
  /\ \E r \in attendance : r.status = "present"
  /\ \E c \in wage_calculations :
       c.present_days + c.half_days + c.absent_days = 1

(***************************************************************************)
(* Referential integrity (checked under SpecDelete).                       *)
(***************************************************************************)
\* C23: every attendance record, calculation and payment references an
\* employee of the store and every payment references a calculation of the
\* store; a step that deletes an employee leaves no row of that employee,
\* and a step that deletes a calculation leaves no payment of it.
C23_ReferencesResolve ==
  [][/\ \A r \in attendance' \cup wage_calculations' \cup payments' :
          r.employee_id \in DOMAIN employees'
     /\ \A p \in payments' :
          \E c \in wage_calculations' : c.id = p.wage_calculation_id
     /\ \A e \in DOMAIN employees \ DOMAIN employees' :
          \A r \in attendance' \cup wage_calculations' \cup payments' :
            r.employee_id # e
     /\ \A c \in wage_calculations :
          (\A x \in wage_calculations' : x.id # c.id)
          => \A p \in payments' : p.wage_calculation_id # c.id]_vars

\* an employee whose paid calculation the session still lists is deleted
\* with every row of theirs, the other employee's rows are kept
C23_Witness ==
  /\ "e1" \notin DOMAIN employees
  /\ \E c \in calculations["s1"] : c.employee_id = "e1" /\ c.is_paid
  /\ wage_calculations = {}
  /\ payments = {}
  /\ attendance # {}
  /\ \A r \in attendance : r.employee_id = "e2"

\* is a calculation of this id stored
Resolves(calculationId) == \E c \in wage_calculations : c.id = calculationId

\* C24: markAsPaid for a calculation whose id resolves to no stored row
\* changes no calculation, creates no payment and ends with the alert
\* 'Error marking as paid'.
C24_UnresolvedMarkPaidFails ==
  [][\A s \in Sessions :
       /\ (/\ markPaid[s] = NULL /\ markPaid'[s] # NULL
           /\ ~Resolves(markPaid'[s].calculation.id))
          => wage_calculations' = wage_calculations /\ payments' = payments
       /\ (/\ markPaid[s] # NULL /\ markPaid'[s] = NULL
           /\ ~Resolves(markPaid[s].calculation.id))
          => /\ wage_calculations' = wage_calculations
             /\ payments' = payments
             /\ alert' = Alert(s, AlertPaidError)]_vars

\* the listed calculation was deleted in the store, its employee was not,
\* and marking it as paid has failed
C24_Witness ==
  /\ alert = Alert("s1", AlertPaidError)
  /\ markPaid["s1"] = NULL
  /\ payments = {}
  /\ \E c \in calculations["s1"] :
       /\ ~c.is_paid
       /\ ~Resolves(c.id)
       /\ c.employee_id \in DOMAIN employees

(***************************************************************************)
(* Termination of calculateWages (checked under SpecSteps).                *)
(***************************************************************************)
\* the store round trips of a run that left by the given path
TripsOf(exit) ==
  CASE exit = "validation" -> {0}
    [] exit = "not found" -> {1}
    [] exit = "error" -> {2, 3}
    [] exit = "success" -> {3}
    [] OTHER -> {}

\* C25: a calculateWages call makes at most three store round trips (the
\* employee read, the attendance read, the insert), it ends, and once it
\* has ended, by whichever path, 'calculating' is false again; the flag is
\* true exactly while the call waits for the store.
C25_CalculateTerminates ==
  /\ [](/\ calculateRun.trips <= 3
        /\ calculateRun.await = "done" => calculateRun.trips \in TripsOf(calculateRun.exit)
        /\ calculating <=> calculateRun.await \in {"employee", "attendance", "insert"})
  /\ (calculating ~> ~calculating)

\* a call has made its three round trips, has inserted its row and has left
\* the flag false
C25_Witness ==
  /\ calculateRun.await = "done"
  /\ calculateRun.exit = "success"
  /\ calculateRun.trips = 3
  /\ ~calculating
  /\ nextId = 2
  /\ alert = Alert("s1", AlertCalculated)

(***************************************************************************)
(* Payments against paid calculations (checked under Spec).                *)
(***************************************************************************)
RECURSIVE SumNetAmount(_)
SumNetAmount(rows) ==
  IF rows = {} THEN 0
  ELSE LET c == CHOOSE x \in rows : TRUE IN c.net_amount + SumNetAmount(rows \ {c})

\* C26: for each employee the amounts of the employee's payments add up to
\* the net amounts of the employee's calculations flagged paid; stated for
\* the states in which no markAsPaid call is between its two writes.
C26_PaymentsEqualPaidNet ==
  (\A s \in Sessions : markPaid[s] = NULL) =>
    \A e \in EmpIds :
      SumAmount({p \in payments : p.employee_id = e})
        = SumNetAmount({c \in wage_calculations : c.employee_id = e /\ c.is_paid})

(***************************************************************************)
(* The report once its fetches have completed (checked under SpecReport).  *)
(***************************************************************************)
\* C27: once no fetch of the report is in flight, the summaries shown have
\* an entry for every employee with a payment in the selected range, in
\* whichever order the employee fetch and the summaries fetch completed.
C27_SummariesCoverPaidEmployees ==
  fetching = {} =>
    \A p \in StoredInRange(startDate, endDate) :
      \E i \in DOMAIN employeeSummaries :
        employeeSummaries[i].employee.id = p.employee_id

\* C28: once no fetch of the report is in flight, the payment list shown is
\* the list of the filter selected last, in whichever order the answers of
\* the payment fetches arrived.
C28_ListOfLatestFilter ==
  fetching = {} =>
    LET wanted == {p \in StoredInRange(startDate, endDate) :
                     selectedEmployee # AllEmployees => p.employee_id = selectedEmployee}
    IN /\ {reportPayments[i].id : i \in DOMAIN reportPayments} = {p.id : p \in wanted}
       /\ Len(reportPayments) = Cardinality(wanted)

(***************************************************************************)
(* One session, one action at a time (checked under SpecSequential).       *)
(***************************************************************************)
\* C29: between the user's actions, every calculation the list offers
\* 'Mark as Paid' for (the listed rows with is_paid false) is unpaid in the
\* store.
C29_OfferedOnlyUnpaid ==
  \A c \in calculations["s1"] :
    ~c.is_paid => \A x \in wage_calculations : x.id = c.id => ~x.is_paid

\* C30: two distinct paid calculations of one employee cover no attendance
\* record in common.
C30_NoDayPaidTwice ==
  \A c \in wage_calculations, x \in wage_calculations :
    (c.id # x.id /\ c.employee_id = x.employee_id /\ c.is_paid /\ x.is_paid)
    => RecordsOf(c) \cap RecordsOf(x) = {}

=============================================================================
